---- MODULE Spec2Model ----
(***************************************************************************)
(* Adjustment loading (load_adjustments_from_sqlite and its helpers) and   *)
(* the AdjustedArrayWindow cursor of zipline, as state machines.           *)
(*                                                                         *)
(* Row and column indices are 0-based as in the code; TLA+ sequences are   *)
(* 1-based, so position k of a sequence is index k-1.                      *)
(***************************************************************************)
EXTENDS Integers, Sequences, FiniteSets, TLC

\* ---------------------------------------------------------------- bounds
\* Dates are integer seconds since the epoch, drawn from 1..MaxDate;
\* effective dates from 0..MaxDate+1 (one before, one after every axis).
MaxDate == 3
\* Longest table of the adjustment store in the ordering specification.
MaxRows == 2
\* Largest asset id of the chunking specification.
MaxAssets == 4
\* SQLITE_MAX_VARIABLE_NUMBER, imported at part_000:38-40 (999 in the asset
\* writer); scaled down so that several chunks are issued.
SQLITE_MAX_IN_STATEMENT == 2

\* ---------------------------------------------------------------- helpers
Range(s) == {s[k] : k \in 1..Len(s)}

SeqsUpTo(S, n) == UNION {[1..k -> S] : k \in 0..n}

InjectiveSeqs(S) ==
    {s \in SeqsUpTo(S, Cardinality(S)) :
        \A a, b \in 1..Len(s) : a # b => s[a] # s[b]}

IncreasingSeqs(S) ==
    {s \in SeqsUpTo(S, Cardinality(S)) :
        /\ Len(s) >= 1
        /\ \A a, b \in 1..Len(s) : a < b => s[a] < s[b]}

Min(a, b) == IF a <= b THEN a ELSE b

\* Variant: the volume correction carries the ratio itself.
ReciprocalSame(ratio) == ratio

\* A ratio is the pair <<numerator, denominator>>; 1.0 / ratio swaps them.
Reciprocal(ratio) == <<ratio[2], ratio[1]>>

\* ---------------------------------------------------------------- state
VARIABLES
    \* arguments of load_adjustments_from_sqlite
    adjustments_db,            \* [splits, mergers, dividends]: tables of rows
    dates,                     \* the date axis, strictly increasing
    assets,                    \* the asset axis, unique ids
    should_include_splits,
    should_include_mergers,    \* reassigned at part_000:220
    should_include_dividends,  \* reassigned at part_000:221
    adjustment_type,
    requested,                 \* the merger/dividend flags as passed (history)
    \* locals
    pc,
    split_sids, merger_sids, dividend_sids,
    to_query,                  \* <table>_to_query of the running chunk loop
    splits, mergers, dividends,\* the fetched rows
    statements,                \* every statement executed on the store, in order
    price_adjustments, volume_adjustments,
    price_src, volume_src,     \* history: the record behind each correction
    date_ixs, asset_ixs,
    pos,                       \* position of the running for loop
    result,
    raised,
    \* AdjustedArrayWindow
    window                     \* the AdjustedArrayWindow and its last call

loadVars == <<adjustments_db, dates, assets, should_include_splits,
              should_include_mergers, should_include_dividends,
              adjustment_type, requested, pc, split_sids, merger_sids,
              dividend_sids, to_query, splits, mergers, dividends, statements,
              price_adjustments, volume_adjustments, price_src, volume_src,
              date_ixs, asset_ixs, pos, result, raised>>

vars == <<loadVars, window>>

argVars == <<adjustments_db, dates, assets, should_include_splits,
             adjustment_type, requested>>

Empty == <<>>

\* ---------------------------------------------------------------- queries
start_date == dates[1]
end_date == dates[Len(dates)]

\* Variant: the range has no upper end.
InRangeOpen(effective_date, lo, hi) == lo <= effective_date

\* WHERE effective_date >= ? AND effective_date <= ?
InRange(effective_date, lo, hi) == lo <= effective_date /\ effective_date <= hi

\* str(a): the decimal text of an asset id.
Str(a) == <<"str", a>>
\* The IN list is compared with the integer sid column: the text is read
\* back as the number it spells.
SqlNumeric(t) == IF t[1] = "str" THEN t[2] ELSE t

\* SELECT DISTINCT sid FROM table WHERE effective_date in range
_get_sids_from_table(db, tablename, lo, hi) ==
    {db[tablename][k].sid : k \in
        {j \in 1..Len(db[tablename]) :
            InRange(db[tablename][j].effective_date, lo, hi)}}

\* SELECT sid, ratio, effective_date FROM table
\* WHERE sid IN (params) AND effective_date in range. There is no ORDER BY:
\* the rows of one statement come in the order the table holds them.
RowMatches(row, params, lo, hi) ==
    /\ row.sid \in {SqlNumeric(params[k]) : k \in 1..Len(params)}
    /\ InRange(row.effective_date, lo, hi)

RECURSIVE Execute(_, _, _, _)
Execute(rows, params, lo, hi) ==
    IF rows = <<>> THEN <<>>
    ELSE (IF RowMatches(Head(rows), params, lo, hi)
            THEN <<Head(rows)>> ELSE <<>>)
         \o Execute(Tail(rows), params, lo, hi)

\* [str(a) for a in assets if a in sids]
RECURSIVE Candidates(_, _)
Candidates(axis, sids) ==
    IF axis = <<>> THEN <<>>
    ELSE (IF Head(axis) \in sids THEN <<Str(Head(axis))>> ELSE <<>>)
         \o Candidates(Tail(axis), sids)

\* Variant: the whole remaining list goes into one statement.
QueryLenAll(remaining) == Len(remaining)

\* min(len(to_query), SQLITE_MAX_IN_STATEMENT)
QueryLen(remaining) == Min(Len(remaining), SQLITE_MAX_IN_STATEMENT)

\* Variant: the slice starts one element late.
AdvanceSkip(remaining, query_len) ==
    SubSeq(remaining, query_len + 2, Len(remaining))

\* to_query[query_len:]
Advance(remaining, query_len) ==
    SubSeq(remaining, query_len + 1, Len(remaining))

\* ---------------------------------------------------------------- indexers
\* ndarray.searchsorted(dt, side='right') by bisection over a[lo..hi).
RECURSIVE Bisect(_, _, _, _)
Bisect(a, dt, lo, hi) ==
    IF lo >= hi THEN lo
    ELSE LET mid == (lo + hi) \div 2 IN
         IF a[mid + 1] <= dt THEN Bisect(a, dt, mid + 1, hi)
         ELSE Bisect(a, dt, lo, mid)

SearchSortedRight(a, dt) == Bisect(a, dt, 0, Len(a))

\* Variant: the date cache starts empty.
PrePopulateNone(axis) == <<>>

\* for i, dt in enumerate(_dates_seconds): date_ixs[dt] = i
PrePopulate(axis) ==
    [dt \in Range(axis) |-> (CHOOSE k \in 1..Len(axis) : axis[k] = dt) - 1]

\* _lookup_dt: the cache after the lookup; the row is cache'[dt].
_lookup_dt(dt_cache, dt, fallback) ==
    IF dt \in DOMAIN dt_cache THEN dt_cache
    ELSE dt_cache @@ (dt :> SearchSortedRight(fallback, dt))

\* Variant: a 1-based column.
GetLocOneBased(axis, sid) == CHOOSE k \in 1..Len(axis) : axis[k] = sid

\* assets.get_loc(sid)
HasLoc(axis, sid) == \E k \in 1..Len(axis) : axis[k] = sid
GetLoc(axis, sid) == (CHOOSE k \in 1..Len(axis) : axis[k] = sid) - 1

LookupAsset(cache, axis, sid) ==
    IF sid \in DOMAIN cache THEN cache
    ELSE cache @@ (sid :> GetLoc(axis, sid))

\* Float64Multiply(0, date_loc, asset_ix, asset_ix, value)
Float64Multiply(first_row, last_row, first_col, last_col, value) ==
    [first_row |-> first_row, last_row |-> last_row,
     first_col |-> first_col, last_col |-> last_col, value |-> value]

\* d.setdefault(key, []).append(item)
SetDefaultAppend(d, key, item) ==
    IF key \in DOMAIN d THEN [d EXCEPT ![key] = Append(@, item)]
    ELSE d @@ (key :> <<item>>)

\* ---------------------------------------------------------------- flags
\* Variant: every adjustment type passes.
ValidAdjustmentTypeAny(t) == TRUE

ValidAdjustmentType(t) == t = "price" \/ t = "volume" \/ t = "all"

should_include_price_adjustments ==
    adjustment_type = "all" \/ adjustment_type = "price"
should_include_volume_adjustments ==
    adjustment_type = "all" \/ adjustment_type = "volume"

\* Variant: the flags are left as passed.
EffectiveIncludeKept(flag, include_price) == flag

\* if not should_include_price_adjustments: the flag is forced to False
EffectiveInclude(flag, include_price) == IF ~include_price THEN FALSE ELSE flag

\* Variant: dividends are chained before mergers.
ChainSwapped(m, d) ==
    [k \in 1..Len(d) |-> [cat |-> "dividends", ix |-> k, row |-> d[k]]]
    \o [k \in 1..Len(m) |-> [cat |-> "mergers", ix |-> k, row |-> m[k]]]

\* chain(mergers, dividends), each row tagged with its table
Tagged(rows, tag) == [k \in 1..Len(rows) |-> [cat |-> tag, ix |-> k, row |-> rows[k]]]
Chain(m, d) == Tagged(m, "mergers") \o Tagged(d, "dividends")

\* ---------------------------------------------------------------- Init
WindowIdle == [phase |-> "unused"]

InitLoad(Axes, AssetAxes, Stores, Flags, Types) ==
    /\ dates \in Axes
    /\ assets \in AssetAxes
    /\ adjustments_db \in Stores
    /\ \E f \in Flags :
        /\ should_include_splits = f[1]
        /\ should_include_mergers = f[2]
        /\ should_include_dividends = f[3]
        /\ requested = f
    /\ adjustment_type \in Types
    /\ pc = "start"
    /\ split_sids = {} /\ merger_sids = {} /\ dividend_sids = {}
    /\ to_query = <<>>
    /\ splits = <<>> /\ mergers = <<>> /\ dividends = <<>>
    /\ statements = <<>>
    /\ price_adjustments = Empty /\ volume_adjustments = Empty
    /\ price_src = Empty /\ volume_src = Empty
    /\ date_ixs = Empty /\ asset_ixs = Empty
    /\ pos = 0
    /\ result = Empty
    /\ raised = "none"
    /\ window = WindowIdle

\* ---------------------------------------------------------------- actions
\* part_000:202-221: validation and the effective inclusion flags.
Validate ==
    /\ pc = "start"
    /\ IF ~ValidAdjustmentType(adjustment_type)
       THEN /\ pc' = "raised"
            /\ raised' = "ValueError"
            /\ UNCHANGED <<should_include_mergers, should_include_dividends>>
       ELSE /\ pc' = "resolve"
            /\ should_include_mergers' =
                 EffectiveInclude(should_include_mergers,
                                  should_include_price_adjustments)
            /\ should_include_dividends' =
                 EffectiveInclude(should_include_dividends,
                                  should_include_price_adjustments)
            /\ UNCHANGED raised
    /\ UNCHANGED <<argVars, split_sids, merger_sids, dividend_sids, to_query,
                   splits, mergers, dividends, statements, price_adjustments,
                   volume_adjustments, price_src, volume_src, date_ixs,
                   asset_ixs, pos, result, window>>

SidStatement(tablename) ==
    [kind |-> "sids", table |-> tablename, params |-> <<start_date, end_date>>]

\* part_000:223-255: one DISTINCT sid query per included category; then
\* part_000:115: the candidate list of the first chunk loop.
ResolveSids ==
    /\ pc = "resolve"
    /\ split_sids' = IF should_include_splits
                     THEN _get_sids_from_table(adjustments_db, "splits",
                                               start_date, end_date)
                     ELSE {}
    /\ merger_sids' = IF should_include_mergers
                      THEN _get_sids_from_table(adjustments_db, "mergers",
                                                start_date, end_date)
                      ELSE {}
    /\ dividend_sids' = IF should_include_dividends
                        THEN _get_sids_from_table(adjustments_db, "dividends",
                                                  start_date, end_date)
                        ELSE {}
    /\ statements' = statements
          \o (IF should_include_splits THEN <<SidStatement("splits")>> ELSE <<>>)
          \o (IF should_include_mergers THEN <<SidStatement("mergers")>> ELSE <<>>)
          \o (IF should_include_dividends THEN <<SidStatement("dividends")>> ELSE <<>>)
    /\ to_query' = Candidates(assets, split_sids')
    /\ pc' = "splits"
    /\ UNCHANGED <<argVars, should_include_mergers, should_include_dividends,
                   splits, mergers, dividends, price_adjustments,
                   volume_adjustments, price_src, volume_src, date_ixs,
                   asset_ixs, pos, result, raised, window>>

\* part_000:117-129 (and 133-145, 149-161): one iteration of a chunk loop.
FetchChunk(tablename) ==
    /\ pc = tablename
    /\ to_query # <<>>
    /\ LET query_len == QueryLen(to_query)
           query_assets == SubSeq(to_query, 1, query_len)
           \* str() of a str is that str
           t == [k \in 1..Len(query_assets) |-> query_assets[k]]
           fetched == Execute(adjustments_db[tablename], t, start_date, end_date)
       IN /\ statements' = Append(statements,
                 [kind |-> "adjustments", table |-> tablename, params |-> t])
          /\ to_query' = Advance(to_query, query_len)
          /\ splits' = IF tablename = "splits" THEN splits \o fetched ELSE splits
          /\ mergers' = IF tablename = "mergers" THEN mergers \o fetched ELSE mergers
          /\ dividends' = IF tablename = "dividends"
                          THEN dividends \o fetched ELSE dividends
    /\ UNCHANGED <<argVars, should_include_mergers, should_include_dividends,
                   pc, split_sids, merger_sids, dividend_sids,
                   price_adjustments, volume_adjustments, price_src,
                   volume_src, date_ixs, asset_ixs, pos, result, raised, window>>

\* The while loop of one table ends; the next candidate list is built
\* (part_000:131, 147), or the caches of the assembly are set up
\* (part_000:269-289).
ChunksDone ==
    /\ pc \in {"splits", "mergers", "dividends"}
    /\ to_query = <<>>
    /\ IF pc = "splits"
       THEN /\ to_query' = Candidates(assets, merger_sids)
            /\ pc' = "mergers"
            /\ UNCHANGED <<date_ixs, pos>>
       ELSE IF pc = "mergers"
       THEN /\ to_query' = Candidates(assets, dividend_sids)
            /\ pc' = "dividends"
            /\ UNCHANGED <<date_ixs, pos>>
       ELSE /\ to_query' = <<>>
            /\ pc' = "split_loop"
            /\ date_ixs' = PrePopulate(dates)
            /\ pos' = 1
    /\ UNCHANGED <<argVars, should_include_mergers, should_include_dividends,
                   split_sids, merger_sids, dividend_sids, splits, mergers,
                   dividends, statements, price_adjustments,
                   volume_adjustments, price_src, volume_src, asset_ixs,
                   result, raised, window>>

\* part_000:292-310: one iteration of the loop over the split rows.
SplitStep ==
    /\ pc = "split_loop"
    /\ pos <= Len(splits)
    /\ LET row == splits[pos]
           src == [cat |-> "splits", ix |-> pos, row |-> row]
           cache == _lookup_dt(date_ixs, row.effective_date, dates)
           date_loc == cache[row.effective_date]
           acache == LookupAsset(asset_ixs, assets, row.sid)
           asset_ix == acache[row.sid]
       IN IF row.effective_date < start_date
          THEN /\ pos' = pos + 1
               /\ UNCHANGED <<pc, raised, date_ixs, asset_ixs,
                              price_adjustments, volume_adjustments,
                              price_src, volume_src>>
          ELSE IF ~HasLoc(assets, row.sid)
          THEN /\ pc' = "raised"
               /\ raised' = "KeyError"
               /\ date_ixs' = cache
               /\ UNCHANGED <<pos, asset_ixs, price_adjustments,
                              volume_adjustments, price_src, volume_src>>
          ELSE /\ date_ixs' = cache
               /\ asset_ixs' = acache
               /\ IF should_include_price_adjustments
                  THEN /\ price_adjustments' = SetDefaultAppend(
                            price_adjustments, date_loc,
                            Float64Multiply(0, date_loc, asset_ix, asset_ix,
                                            row.ratio))
                       /\ price_src' = SetDefaultAppend(price_src, date_loc, src)
                  ELSE UNCHANGED <<price_adjustments, price_src>>
               /\ IF should_include_volume_adjustments /\ row.ratio[1] = 0
                  THEN \* 1.0 / ratio raises for a zero ratio
                       /\ pc' = "raised"
                       /\ raised' = "ZeroDivisionError"
                       /\ UNCHANGED <<pos, volume_adjustments, volume_src>>
                  ELSE /\ pos' = pos + 1
                       /\ UNCHANGED <<pc, raised>>
                       /\ IF should_include_volume_adjustments
                          THEN /\ volume_adjustments' = SetDefaultAppend(
                                    volume_adjustments, date_loc,
                                    Float64Multiply(0, date_loc, asset_ix,
                                        asset_ix, Reciprocal(row.ratio)))
                               /\ volume_src' =
                                    SetDefaultAppend(volume_src, date_loc, src)
                          ELSE UNCHANGED <<volume_adjustments, volume_src>>
    /\ UNCHANGED <<argVars, should_include_mergers, should_include_dividends,
                   split_sids, merger_sids, dividend_sids, to_query, splits,
                   mergers, dividends, statements, result, window>>

\* The split loop is exhausted; part_000:313 starts the second pass.
SplitsDone ==
    /\ pc = "split_loop"
    /\ pos > Len(splits)
    /\ pc' = "chain_loop"
    /\ pos' = 1
    /\ UNCHANGED <<argVars, should_include_mergers, should_include_dividends,
                   split_sids, merger_sids, dividend_sids, to_query, splits,
                   mergers, dividends, statements, price_adjustments,
                   volume_adjustments, price_src, volume_src, date_ixs,
                   asset_ixs, result, raised, window>>

\* part_000:313-324: one iteration over chain(mergers, dividends).
ChainStep ==
    /\ pc = "chain_loop"
    /\ pos <= Len(Chain(mergers, dividends))
    /\ LET src == Chain(mergers, dividends)[pos]
           row == src.row
           cache == _lookup_dt(date_ixs, row.effective_date, dates)
           date_loc == cache[row.effective_date]
           acache == LookupAsset(asset_ixs, assets, row.sid)
           asset_ix == acache[row.sid]
       IN IF row.effective_date < start_date
          THEN /\ pos' = pos + 1
               /\ UNCHANGED <<pc, raised, date_ixs, asset_ixs,
                              price_adjustments, price_src>>
          ELSE IF ~HasLoc(assets, row.sid)
          THEN /\ pc' = "raised"
               /\ raised' = "KeyError"
               /\ date_ixs' = cache
               /\ UNCHANGED <<pos, asset_ixs, price_adjustments, price_src>>
          ELSE /\ date_ixs' = cache
               /\ asset_ixs' = acache
               /\ price_adjustments' = SetDefaultAppend(
                      price_adjustments, date_loc,
                      Float64Multiply(0, date_loc, asset_ix, asset_ix, row.ratio))
               /\ price_src' = SetDefaultAppend(price_src, date_loc, src)
               /\ pos' = pos + 1
               /\ UNCHANGED <<pc, raised>>
    /\ UNCHANGED <<argVars, should_include_mergers, should_include_dividends,
                   split_sids, merger_sids, dividend_sids, to_query, splits,
                   mergers, dividends, statements, volume_adjustments,
                   volume_src, result, window>>

\* part_000:326-331
Return ==
    /\ pc = "chain_loop"
    /\ pos > Len(Chain(mergers, dividends))
    /\ result' =
         (IF should_include_price_adjustments
            THEN ("price" :> price_adjustments) ELSE Empty)
         @@ (IF should_include_volume_adjustments
            THEN ("volume" :> volume_adjustments) ELSE Empty)
    /\ pc' = "done"
    /\ UNCHANGED <<argVars, should_include_mergers, should_include_dividends,
                   split_sids, merger_sids, dividend_sids, to_query, splits,
                   mergers, dividends, statements, price_adjustments,
                   volume_adjustments, price_src, volume_src, date_ixs,
                   asset_ixs, pos, raised, window>>

Next ==
    \/ Validate
    \/ ResolveSids
    \/ \E tablename \in {"splits", "mergers", "dividends"} : FetchChunk(tablename)
    \/ ChunksDone
    \/ SplitStep
    \/ SplitsDone
    \/ ChainStep
    \/ Return

\* ---------------------------------------------------------------- inputs
Sids == {1, 2}
Ratios == {<<2, 1>>, <<0, 1>>}
Row(sid, ratio, effective_date) ==
    [sid |-> sid, ratio |-> ratio, effective_date |-> effective_date]

AllFlags == BOOLEAN \X BOOLEAN \X BOOLEAN
AllTypes == {"price", "volume", "all", "bogus"}

\* Dates: every axis over 1..MaxDate, one row per table with any effective
\* date from before the first to after the last axis entry; the dividend
\* table holds the merger row and the split row, so dates are looked up
\* twice and one sid can have rows inside and outside the range; the split
\* table ends with a row dated before every axis.
DateStores ==
    {[splits |-> <<s, Row(1, <<2, 1>>, 0)>>, mergers |-> <<m>>,
      dividends |-> <<m, s>>] :
        s \in {Row(sid, r, e) : sid \in Sids, r \in Ratios, e \in 0..(MaxDate + 1)},
        m \in {Row(1, <<2, 1>>, e) : e \in 0..(MaxDate + 1)}}

InitDates ==
    InitLoad(IncreasingSeqs(1..MaxDate), {<<1, 2>>, <<2>>}, DateStores,
             {<<TRUE, TRUE, TRUE>>}, {"all", "price"})

SpecDates == InitDates /\ [][Next]_vars

\* Flags: every combination of include flags and adjustment types (one
\* unsupported), at most one row per table.
FlagTables ==
    {<<>>} \cup {<<Row(1, r, e)>> : r \in Ratios, e \in {1, 2}}

FlagStores == [splits : FlagTables, mergers : FlagTables, dividends : FlagTables]

Init == InitLoad({<<1, 3>>}, {<<1, 2>>}, FlagStores, AllFlags, AllTypes)

Spec == Init /\ [][Next]_vars

\* Ordering: tables of up to MaxRows rows over two buckets, two of the rows
\* landing in the same one.
OrderTables ==
    SeqsUpTo({Row(1, <<2, 1>>, 2), Row(2, <<2, 1>>, 2), Row(1, <<2, 1>>, 1)},
             MaxRows)

OrderStores == [splits : OrderTables, mergers : OrderTables, dividends : OrderTables]

InitOrder ==
    InitLoad({<<1, 3>>}, {<<2, 1>>}, OrderStores, {<<TRUE, TRUE, TRUE>>},
             {"all"})

SpecOrder == InitOrder /\ [][Next]_vars

\* Chunking: any asset axis over 1..MaxAssets; every table holds one row
\* for each sid of a subset, in ascending or in descending sid order.
RECURSIVE Ascending(_)
Ascending(S) ==
    IF S = {} THEN <<>>
    ELSE LET m == CHOOSE x \in S : \A y \in S : x <= y
         IN <<Row(m, <<2, 1>>, 1)>> \o Ascending(S \ {m})

Reverse(s) == [k \in 1..Len(s) |-> s[Len(s) + 1 - k]]

ChunkStores ==
    {[splits |-> t, mergers |-> t, dividends |-> Reverse(t)] :
        t \in {Ascending(S) : S \in SUBSET (1..MaxAssets)}
              \cup {Reverse(Ascending(S)) : S \in SUBSET (1..MaxAssets)}}

InitChunk ==
    InitLoad({<<1, 2>>}, InjectiveSeqs(1..MaxAssets), ChunkStores,
             {<<TRUE, TRUE, TRUE>>}, {"all"})

SpecChunk == InitChunk /\ [][Next]_vars

\* ---------------------------------------------------------------- window
\* AdjustedArrayWindow (the _windowtemplate.pxi included by the three
\* specializations), written from its contract: a baseline buffer mutated
\* in place, a schedule, a cursor, a window length and a cached view.
WindowRows == 3
WindowCols == 1

\* Variant: a rewind is not detected.
IsRewindNever(row, cursor) == FALSE

\* Windows are forward-only.
IsRewind(row, cursor) == row < cursor

OutOfBounds(row, window_length) ==
    row - window_length + 1 < 0 \/ row >= WindowRows

\* cell *= value over the rectangle of one correction
ApplyCorrection(buffer, c) ==
    [r \in DOMAIN buffer |->
        [col \in DOMAIN buffer[r] |->
            IF /\ c.first_row <= r /\ r <= c.last_row
               /\ c.first_col <= col /\ col <= c.last_col
            THEN buffer[r][col] * c.value
            ELSE buffer[r][col]]]

RECURSIVE ApplyBucket(_, _)
ApplyBucket(buffer, bucket) ==
    IF bucket = <<>> THEN buffer
    ELSE ApplyBucket(ApplyCorrection(buffer, Head(bucket)), Tail(bucket))

\* Every bucket keyed by a row in (cursor, row], in row order.
RECURSIVE ApplyPending(_, _, _, _)
ApplyPending(buffer, schedule, cursor, row) ==
    IF cursor >= row THEN buffer
    ELSE ApplyPending(
            IF (cursor + 1) \in DOMAIN schedule
            THEN ApplyBucket(buffer, schedule[cursor + 1]) ELSE buffer,
            schedule, cursor + 1, row)

\* The window of window_length rows ending at row.
View(buffer, row, window_length) ==
    [k \in 1..window_length |-> buffer[row - window_length + k]]

Bump(applied, rows) ==
    [r \in DOMAIN applied |-> IF r \in rows THEN applied[r] + 1 ELSE applied[r]]

\* Schedules as the loader builds them: the bucket of row b multiplies
\* rows 0..b of column 0.
WindowSchedules ==
    {[b \in K |-> <<Float64Multiply(0, b, 0, 0, 2)>>] :
        K \in SUBSET (0..(WindowRows - 1))}

InitWindow ==
    /\ adjustments_db = [splits |-> <<>>, mergers |-> <<>>, dividends |-> <<>>]
    /\ dates = <<1>> /\ assets = <<>>
    /\ should_include_splits = FALSE /\ should_include_mergers = FALSE
    /\ should_include_dividends = FALSE
    /\ requested = <<FALSE, FALSE, FALSE>>
    /\ adjustment_type = "all"
    /\ pc = "unused"
    /\ split_sids = {} /\ merger_sids = {} /\ dividend_sids = {}
    /\ to_query = <<>>
    /\ splits = <<>> /\ mergers = <<>> /\ dividends = <<>>
    /\ statements = <<>>
    /\ price_adjustments = Empty /\ volume_adjustments = Empty
    /\ price_src = Empty /\ volume_src = Empty
    /\ date_ixs = Empty /\ asset_ixs = Empty
    /\ pos = 0 /\ result = Empty /\ raised = "none"
    /\ \E f \in WindowSchedules, n \in 1..WindowRows :
         window = [phase |-> "live",
                   baseline |-> [r \in 0..(WindowRows - 1) |->
                                    [col \in 0..(WindowCols - 1) |-> 1]],
                   schedule |-> f,
                   cursor |-> -1,
                   window_length |-> n,
                   cached_view |-> <<>>,
                   applied |-> [r \in 0..(WindowRows - 1) |-> 0],
                   arg |-> -1,
                   outcome |-> "none",
                   returned |-> <<>>,
                   seen |-> {}]

\* advance_to(row)
AdvanceTo(row) ==
    /\ window.phase = "live"
    /\ LET w == window IN
       IF IsRewind(row, w.cursor)
       THEN window' = [w EXCEPT !.arg = row, !.outcome = "OrderingError",
                                !.returned = <<>>,
                                !.seen = @ \cup {"OrderingError"}]
       ELSE IF OutOfBounds(row, w.window_length)
       THEN window' = [w EXCEPT !.arg = row, !.outcome = "LookupError",
                                !.returned = <<>>,
                                !.seen = @ \cup {"LookupError"}]
       ELSE IF w.cached_view # <<>> /\ w.cached_view[1] = row
       THEN window' = [w EXCEPT !.arg = row, !.outcome = "cached",
                                !.returned = w.cached_view[2],
                                !.seen = @ \cup {"cached"}]
       ELSE LET buffer == ApplyPending(w.baseline, w.schedule, w.cursor, row)
                view == View(buffer, row, w.window_length)
            IN window' = [w EXCEPT
                    !.baseline = buffer,
                    !.cursor = row,
                    !.cached_view = <<row, view>>,
                    !.applied = Bump(@, {r \in DOMAIN w.schedule :
                                            w.cursor < r /\ r <= row}),
                    !.arg = row, !.outcome = "advanced",
                    !.returned = view,
                    !.seen = @ \cup {"advanced"}]
    /\ UNCHANGED loadVars

NextWindow == \E row \in 0..WindowRows : AdvanceTo(row)

SpecWindow == InitWindow /\ [][NextWindow]_vars

\* ---------------------------------------------------------------- claims
CountLE(axis, e) == Cardinality({k \in 1..Len(axis) : axis[k] <= e})
CountLT(axis, e) == Cardinality({k \in 1..Len(axis) : axis[k] < e})

\* Every scheduled correction with its bucket key and the record behind it.
PriceEntries ==
    UNION {{[key |-> b, k |-> k, adj |-> price_adjustments[b][k],
             src |-> price_src[b][k]] : k \in 1..Len(price_adjustments[b])} :
           b \in DOMAIN price_adjustments}

VolumeEntries ==
    UNION {{[key |-> b, k |-> k, adj |-> volume_adjustments[b][k],
             src |-> volume_src[b][k]] : k \in 1..Len(volume_adjustments[b])} :
           b \in DOMAIN volume_adjustments}

Entries == PriceEntries \cup VolumeEntries

FetchComplete == pc \in {"split_loop", "chain_loop", "done"}

\* C1 as stated: every scheduled correction sits in the row that a
\* right-side search gives, the number of axis dates <= its effective date,
\* also when the effective date is itself an axis date.
C1_RightSideRow ==
    \A e \in Entries :
        /\ e.key = CountLE(dates, e.src.row.effective_date)
        /\ e.adj.last_row = e.key

\* C1 amended: every scheduled correction sits in the row given by the
\* number of axis dates strictly before its effective date: an effective
\* date that is an axis date gets that date's own index, any other retained
\* date the right-side search result.
C1_RowOfSession ==
    \A e \in Entries :
        /\ e.key = CountLT(dates, e.src.row.effective_date)
        /\ e.adj.last_row = e.key
        /\ (e.src.row.effective_date \notin Range(dates)
              => e.key = CountLE(dates, e.src.row.effective_date))

C1_Witness ==
    /\ pc = "done"
    /\ \E e \in Entries :
         /\ e.src.row.effective_date \in Range(dates)
         /\ e.key >= 1
    /\ \E e \in Entries : e.src.row.effective_date \notin Range(dates)

\* C2: a call with adjustment_type 'all' that returns has, for every fetched
\* split row with ratio r, a price correction of value r and a volume
\* correction of value 1/r in the same bucket and column; every fetched
\* merger or dividend row has a price correction of value r, and no volume
\* correction comes from a merger or a dividend.
C2_SplitAndMergerValues ==
    pc = "done" =>
      /\ adjustment_type = "all" =>
           \A k \in 1..Len(splits) :
             \E p \in PriceEntries, v \in VolumeEntries :
               /\ p.src = [cat |-> "splits", ix |-> k, row |-> splits[k]]
               /\ v.src = p.src
               /\ p.key = v.key
               /\ p.adj.last_row = v.adj.last_row
               /\ p.adj.first_col = v.adj.first_col
               /\ p.adj.last_col = v.adj.last_col
               /\ p.adj.value = splits[k].ratio
               /\ v.adj.value[1] * splits[k].ratio[1]
                    = v.adj.value[2] * splits[k].ratio[2]
               /\ v.adj.value[2] # 0
      /\ \A k \in 1..Len(Tagged(mergers, "mergers") \o Tagged(dividends, "dividends")) :
           LET c == (Tagged(mergers, "mergers") \o Tagged(dividends, "dividends"))[k]
           IN \E p \in PriceEntries : p.src = c /\ p.adj.value = c.row.ratio
      /\ \A v \in VolumeEntries : v.src.cat = "splits"

C2_Witness ==
    /\ pc = "done"
    /\ adjustment_type = "all"
    /\ Len(splits) >= 1 /\ Len(mergers) >= 1 /\ Len(dividends) >= 1
    /\ VolumeEntries # {}

\* C3: with adjustment_type 'volume' no merger or dividend row is fetched
\* or scheduled, whatever the include flags were: the price schedule stays
\* empty, every volume correction comes from a split row, and the result
\* holds the volume schedule alone.
C3_VolumeIgnoresMergersDividends ==
    adjustment_type = "volume" =>
      /\ mergers = <<>> /\ dividends = <<>>
      /\ PriceEntries = {}
      /\ \A v \in VolumeEntries : v.src.cat = "splits"
      /\ pc = "done" => (DOMAIN result = {"volume"} /\ result["volume"] = volume_adjustments)

C3_Witness ==
    /\ pc = "done"
    /\ adjustment_type = "volume"
    /\ requested = <<TRUE, TRUE, TRUE>>
    /\ _get_sids_from_table(adjustments_db, "mergers", start_date, end_date) # {}
    /\ _get_sids_from_table(adjustments_db, "dividends", start_date, end_date) # {}
    /\ VolumeEntries # {}

Unchunked(tablename, sids) ==
    Execute(adjustments_db[tablename],
            Candidates(assets, sids), start_date, end_date)

Count(s, x) == Cardinality({k \in 1..Len(s) : s[k] = x})
SameBag(s, t) ==
    /\ Len(s) = Len(t)
    /\ \A x \in Range(s) \cup Range(t) : Count(s, x) = Count(t, x)

FitsOneChunk(sids) == Len(Candidates(assets, sids)) <= SQLITE_MAX_IN_STATEMENT

\* C4 as stated: once the chunk loops are over, each table's fetched rows
\* are the very sequence a single statement over all candidates returns.
C4_SameSequence ==
    FetchComplete =>
      /\ splits = Unchunked("splits", split_sids)
      /\ mergers = Unchunked("mergers", merger_sids)
      /\ dividends = Unchunked("dividends", dividend_sids)

\* C4 amended: once the chunk loops are over, each table's fetched rows are
\* the rows a single statement over all candidates returns, each as many
\* times; the order is the same when the candidates fit one chunk.
C4_SameRows ==
    FetchComplete =>
      /\ SameBag(splits, Unchunked("splits", split_sids))
      /\ SameBag(mergers, Unchunked("mergers", merger_sids))
      /\ SameBag(dividends, Unchunked("dividends", dividend_sids))
      /\ FitsOneChunk(split_sids) => splits = Unchunked("splits", split_sids)
      /\ FitsOneChunk(merger_sids) => mergers = Unchunked("mergers", merger_sids)
      /\ FitsOneChunk(dividend_sids)
           => dividends = Unchunked("dividends", dividend_sids)

C4_Witness ==
    /\ FetchComplete
    /\ Len(Candidates(assets, split_sids)) = 2 * SQLITE_MAX_IN_STATEMENT
    /\ Len(splits) = 2 * SQLITE_MAX_IN_STATEMENT
    /\ splits # Unchunked("splits", split_sids)

\* C5: every step that executes an adjustment statement binds a non-empty
\* prefix of the remaining candidates, no longer than the limit, and leaves
\* exactly the rest as the remaining list.
C5_ChunkBound ==
    [][(/\ Len(statements') = Len(statements) + 1
        /\ statements'[Len(statements')].kind = "adjustments")
       => LET q == statements'[Len(statements')]
              n == Len(q.params)
          IN /\ 1 <= n /\ n <= SQLITE_MAX_IN_STATEMENT
             /\ n <= Len(to_query)
             /\ q.params = SubSeq(to_query, 1, n)
             /\ to_query' = SubSeq(to_query, n + 1, Len(to_query))]_vars

C5_Witness ==
    /\ pc \in {"splits", "mergers", "dividends"}
    /\ to_query # <<>>
    /\ \E k \in 1..Len(statements) :
         /\ statements[k].kind = "adjustments"
         /\ statements[k].table = pc
         /\ Len(statements[k].params) = SQLITE_MAX_IN_STATEMENT

\* C6: every scheduled correction comes from a record whose effective date
\* lies between the first and the last date of the axis.
C6_WithinRange ==
    \A e \in Entries :
        /\ start_date <= e.src.row.effective_date
        /\ e.src.row.effective_date <= end_date

C6_Witness ==
    /\ pc = "done"
    /\ \E e \in PriceEntries :
         /\ e.src.cat = "dividends"
         /\ \E r \in Range(adjustments_db["dividends"]) :
              r.sid = e.src.row.sid /\ r.effective_date > end_date
    /\ \E e \in PriceEntries :
         /\ e.src.cat = "splits"
         /\ \E r \in Range(adjustments_db["splits"]) :
              r.sid = e.src.row.sid /\ r.effective_date < start_date

\* C7: every schedule key and every correction's rows lie in
\* [0, len(dates)) and its columns in [0, len(assets)).
C7_IndicesInAxes ==
    \A e \in Entries :
        /\ 0 <= e.key /\ e.key < Len(dates)
        /\ 0 <= e.adj.first_row /\ e.adj.first_row <= e.adj.last_row
        /\ e.adj.last_row < Len(dates)
        /\ 0 <= e.adj.first_col /\ e.adj.first_col <= e.adj.last_col
        /\ e.adj.last_col < Len(assets)

C7_Witness ==
    /\ pc = "done"
    /\ Len(dates) >= 2
    /\ \E e \in Entries :
         /\ e.src.row.effective_date = end_date
         /\ e.key = Len(dates) - 1
         /\ e.adj.first_col = Len(assets) - 1

\* C8: with an unsupported adjustment_type the call raises ValueError and
\* no statement is ever executed on the store.
C8_InvalidTypeFailsFirst ==
    ~(adjustment_type \in {"price", "volume", "all"}) =>
      /\ statements = <<>>
      /\ pc \in {"start", "raised"}
      /\ pc = "raised" => raised = "ValueError"

C8_Witness ==
    /\ pc = "raised"
    /\ raised = "ValueError"
    /\ adjustment_type = "bogus"
    /\ should_include_splits /\ requested = <<TRUE, TRUE, TRUE>>
    /\ adjustments_db["splits"] # <<>>

\* C9: a call of advance_to with a row below the cursor fails with an
\* ordering error and changes nothing; a call with the row of the cursor
\* returns the view of the previous advance and changes neither the buffer
\* nor the applied buckets; no bucket is ever applied twice.
C9_ForwardOnlyIdempotent ==
    /\ [][LET w == window
              v == window'
          IN /\ v.arg < w.cursor =>
                  /\ v.outcome = "OrderingError"
                  /\ v.baseline = w.baseline /\ v.cursor = w.cursor
                  /\ v.cached_view = w.cached_view /\ v.applied = w.applied
             /\ (v.arg = w.cursor /\ w.cursor >= 0) =>
                  /\ v.outcome = "cached"
                  /\ v.returned = w.cached_view[2]
                  /\ v.returned = View(w.baseline, w.cursor, w.window_length)
                  /\ v.baseline = w.baseline /\ v.cursor = w.cursor
                  /\ v.applied = w.applied]_vars
    /\ [](\A r \in DOMAIN window.applied : window.applied[r] <= 1)

C9_Witness ==
    /\ {"OrderingError", "cached", "advanced"} \subseteq window.seen
    /\ window.outcome = "cached"
    /\ window.cursor \in DOMAIN window.schedule
    /\ window.applied[window.cursor] = 1

Rank(cat) == IF cat = "splits" THEN 1 ELSE IF cat = "mergers" THEN 2 ELSE 3

\* C10: in every bucket of the price schedule split corrections precede
\* merger corrections, which precede dividend corrections, and corrections
\* of one table keep the order of the fetched rows.
C10_BucketOrder ==
    \A b \in DOMAIN price_src :
      \A i, j \in 1..Len(price_src[b]) :
        i < j =>
          /\ Rank(price_src[b][i].cat) <= Rank(price_src[b][j].cat)
          /\ price_src[b][i].cat = price_src[b][j].cat
               => price_src[b][i].ix < price_src[b][j].ix

C10_Witness ==
    /\ pc = "done"
    /\ \E b \in DOMAIN price_src :
         /\ \E i \in 1..Len(price_src[b]) : price_src[b][i].cat = "splits"
         /\ \E i \in 1..Len(price_src[b]) : price_src[b][i].cat = "dividends"
         /\ \E i, j \in 1..Len(price_src[b]) :
              /\ i < j
              /\ price_src[b][i].cat = "mergers" /\ price_src[b][j].cat = "mergers"
              /\ price_src[b][i].row # price_src[b][j].row
====
